---- MODULE Spec2Model ----
(***************************************************************************)
(* Model of the bounty ingestion pipeline of Bounty-Tracker:               *)
(*   app/services/github_service.py  (GitHubService)                       *)
(*   app/models/issue.py, app/models/repository.py (rows and their         *)
(*   update_from_github / update_bounty_stats methods)                     *)
(*   app/api/issues.py (sync_issue), app/db/database.py (session setup)    *)
(*                                                                         *)
(* Text is a sequence of one-character strings.  A nullable value is       *)
(* None (the empty tuple) or Some(x) (the one-element tuple).              *)
(***************************************************************************)
EXTENDS Integers, Sequences, FiniteSets, TLC

None == <<>>
Some(x) == <<x>>
IsNone(o) == o = <<>>
Val(o) == o[1]

Max2(a, b) == IF a >= b THEN a ELSE b

Range(s) == {s[k] : k \in 1..Len(s)}

\* F applied to the value of e
With(e, F(_)) == CHOOSE r \in {F(v) : v \in {e}} : TRUE

(***************************************************************************)
(* Text primitives: str.lower(), substring test, regular expressions.      *)
(***************************************************************************)
UpperCase == <<"A","B","C","D","E","F","G","H","I","J","K","L","M",
               "N","O","P","Q","R","S","T","U","V","W","X","Y","Z">>
LowerCase == <<"a","b","c","d","e","f","g","h","i","j","k","l","m",
               "n","o","p","q","r","s","t","u","v","w","x","y","z">>

lower_char(c) ==
    IF \E k \in 1..Len(UpperCase) : UpperCase[k] = c
    THEN LowerCase[CHOOSE k \in 1..Len(UpperCase) : UpperCase[k] = c]
    ELSE c

\* str.lower()
lower(text) == [k \in 1..Len(text) |-> lower_char(text[k])]

Digits == {"0","1","2","3","4","5","6","7","8","9"}
AmountChars == Digits \cup {","}          \* the class [0-9,]
Whitespace == {" ", "\t", "\n"}           \* the class \s

DigitVal(c) == CHOOSE d \in 0..9 : <<"0","1","2","3","4","5","6","7","8","9">>[d + 1] = c

CharAt(t, i) == IF i >= 1 /\ i <= Len(t) THEN t[i] ELSE ""

\* lit occurs in t at position i
HasAt(t, i, lit) ==
    /\ i >= 1
    /\ i + Len(lit) - 1 <= Len(t)
    /\ \A k \in 1..Len(lit) : t[i + k - 1] = lit[k]

\* `keyword in text`
Contains(t, lit) == \E i \in 1..Len(t) : HasAt(t, i, lit)

\* greedy X+ / X*: the index after the longest run of Class starting at i
RECURSIVE RunEnd(_, _, _)
RunEnd(t, i, Class) ==
    IF i <= Len(t) /\ t[i] \in Class THEN RunEnd(t, i + 1, Class) ELSE i

NoMatch == [ok |-> FALSE, grp |-> <<>>, end |-> 0]

\* r"\$([0-9,]+(?:\.[0-9]{2})?)" tried at position i
MatchDollar(t, i) ==
    LET j == RunEnd(t, i + 1, AmountChars)
        e == IF /\ CharAt(t, j) = "."
                /\ CharAt(t, j + 1) \in Digits
                /\ CharAt(t, j + 2) \in Digits
             THEN j + 3 ELSE j
    IN  IF CharAt(t, i) = "$" /\ j > i + 1
        THEN [ok |-> TRUE, grp |-> SubSeq(t, i + 1, e - 1), end |-> e]
        ELSE NoMatch

kw_usd == <<"u","s","d">>
kw_dollar == <<"d","o","l","l","a","r">>

\* r"(\d+)\s*(?:USD|dollars?)" with re.IGNORECASE, tried at position i
MatchUsd(t, i) ==
    LET j == RunEnd(t, i, Digits)
        k == RunEnd(t, j, Whitespace)
        e == IF HasAt(t, k, kw_usd) THEN k + 3
             ELSE IF HasAt(t, k, kw_dollar)
                  THEN (IF CharAt(t, k + 6) = "s" THEN k + 7 ELSE k + 6)
                  ELSE 0
    IN  IF j > i /\ e > 0
        THEN [ok |-> TRUE, grp |-> SubSeq(t, i, j - 1), end |-> e]
        ELSE NoMatch

\* r"<kw>:?\s*\$?([0-9,]+)" tried at position i
MatchKeyword(t, i, kw) ==
    LET a == i + Len(kw)
        b == IF CharAt(t, a) = ":" THEN a + 1 ELSE a
        c == RunEnd(t, b, Whitespace)
        d == IF CharAt(t, c) = "$" THEN c + 1 ELSE c
        e == RunEnd(t, d, AmountChars)
    IN  IF HasAt(t, i, kw) /\ e > d
        THEN [ok |-> TRUE, grp |-> SubSeq(t, d, e - 1), end |-> e]
        ELSE NoMatch

kw_bounty == <<"b","o","u","n","t","y">>
kw_reward == <<"r","e","w","a","r","d">>
kw_prize == <<"p","r","i","z","e">>

\* self.bounty_patterns, by position in the list
NumPatterns == 5
bounty_patterns(p, t, i) ==
    CASE p = 1 -> MatchDollar(t, i)
      [] p = 2 -> MatchUsd(t, i)
      [] p = 3 -> MatchKeyword(t, i, kw_bounty)
      [] p = 4 -> MatchKeyword(t, i, kw_reward)
      [] p = 5 -> MatchKeyword(t, i, kw_prize)

\* re.findall(pattern, text): the groups of the non-overlapping matches,
\* scanning left to right
RECURSIVE findall(_, _, _)
findall(p, t, i) ==
    IF i > Len(t) THEN <<>>
    ELSE LET m == bounty_patterns(p, t, i)
         IN  IF m.ok THEN <<m.grp>> \o findall(p, t, m.end)
             ELSE findall(p, t, i + 1)

\* match.replace(",", "").replace(" ", "")
RECURSIVE StripSeparators(_)
StripSeparators(s) ==
    IF s = <<>> THEN <<>>
    ELSE IF Head(s) \in {",", " "} THEN StripSeparators(Tail(s))
         ELSE <<Head(s)>> \o StripSeparators(Tail(s))

RECURSIVE DigitsValue(_)
DigitsValue(s) ==
    IF s = <<>> THEN 0
    ELSE DigitsValue(SubSeq(s, 1, Len(s) - 1)) * 10 + DigitVal(s[Len(s)])

\* The decimal strings w.cc (w < 10) for which the double nearest to w.cc,
\* multiplied by 100, lies below the integer 100*w + cc, so that int()
\* truncates to one cent less.  Fractions .00 .25 .50 .75 are exact for every w.
FloatShort ==
    {<<0,29>>, <<0,57>>, <<0,58>>, <<1,13>>, <<1,14>>, <<1,15>>, <<1,16>>,
     <<2,1>>, <<2,3>>, <<2,5>>, <<2,7>>, <<2,26>>, <<2,28>>, <<2,30>>, <<2,32>>,
     <<2,51>>, <<2,53>>, <<2,55>>, <<4,2>>, <<4,6>>, <<4,10>>, <<4,14>>, <<4,27>>,
     <<4,31>>, <<4,35>>, <<4,39>>, <<4,52>>, <<4,56>>, <<4,60>>, <<4,64>>, <<4,77>>,
     <<4,81>>, <<4,85>>, <<4,89>>, <<5,2>>, <<5,6>>, <<5,10>>, <<8,3>>, <<8,4>>,
     <<8,12>>, <<8,20>>, <<8,28>>, <<8,29>>, <<8,37>>, <<8,45>>, <<8,53>>, <<8,54>>,
     <<8,62>>, <<8,70>>, <<8,78>>, <<8,79>>, <<8,87>>, <<8,95>>, <<9,3>>, <<9,4>>,
     <<9,12>>, <<9,20>>, <<9,28>>, <<9,29>>, <<9,37>>, <<9,45>>, <<9,53>>, <<9,54>>,
     <<9,62>>, <<9,70>>, <<9,78>>, <<9,79>>, <<9,87>>, <<9,95>>}

\* int(float(amount_str) * 100); ok = FALSE where float() raises ValueError
amount_cents(amount_str) ==
    LET n == Len(amount_str)
        frac == n >= 3 /\ amount_str[n - 2] = "."
        whole == IF frac THEN SubSeq(amount_str, 1, n - 3) ELSE amount_str
        w == DigitsValue(whole)
        cc == IF frac THEN DigitsValue(SubSeq(amount_str, n - 1, n)) ELSE 0
    IN  IF amount_str = <<>> THEN [ok |-> FALSE, cents |-> 0]
        ELSE [ok |-> TRUE,
              cents |-> IF <<w, cc>> \in FloatShort THEN 100 * w + cc - 1
                        ELSE 100 * w + cc]

\* max over the matches of one findall() result
RECURSIVE MaxOfMatches(_, _)
MaxOfMatches(matches, max_amount) ==
    IF matches = <<>> THEN max_amount
    ELSE LET a == amount_cents(StripSeparators(Head(matches)))
         IN  MaxOfMatches(Tail(matches),
                          IF a.ok THEN Max2(max_amount, a.cents) ELSE max_amount)

RECURSIVE MaxOverPatterns(_, _, _)
MaxOverPatterns(t, p, max_amount) ==
    IF p > NumPatterns THEN max_amount
    ELSE MaxOverPatterns(t, p + 1, MaxOfMatches(findall(p, t, 1), max_amount))

\* GitHubService.extract_bounty_amount
extract_bounty_amount(text) ==
    IF text = <<>> THEN 0 ELSE MaxOverPatterns(lower(text), 1, 0)

\* the `sources` dict of determine_bounty_source, in insertion order
sources ==
    << [tag |-> "bountysource",
        keywords |-> {<<"b","o","u","n","t","y","s","o","u","r","c","e">>,
                      <<"b","o","u","n","t","y"," ","s","o","u","r","c","e">>}],
       [tag |-> "gitcoin", keywords |-> {<<"g","i","t","c","o","i","n">>}],
       [tag |-> "algora", keywords |-> {<<"a","l","g","o","r","a">>}],
       [tag |-> "console", keywords |-> {<<"c","o","n","s","o","l","e",".","d","e","v">>}],
       [tag |-> "devcash", keywords |-> {<<"d","e","v","c","a","s","h">>}],
       [tag |-> "github_sponsors",
        keywords |-> {<<"g","i","t","h","u","b"," ","s","p","o","n","s","o","r","s">>,
                      <<"s","p","o","n","s","o","r">>}],
       [tag |-> "custom", keywords |-> {kw_bounty, kw_reward, kw_prize}] >>

SourceMatches(t, k) == \E kw \in sources[k].keywords : Contains(t, kw)

\* a variant that lets the last matching tag win
determine_bounty_source_last(text) ==
    LET t == lower(text)
    IN  IF text = <<>> \/ ~\E k \in 1..Len(sources) : SourceMatches(t, k) THEN None
        ELSE Some(sources[CHOOSE k \in 1..Len(sources) :
                            /\ SourceMatches(t, k)
                            /\ \A j \in (k + 1)..Len(sources) : ~SourceMatches(t, j)].tag)

\* GitHubService.determine_bounty_source: Some(tag) or None
determine_bounty_source(text) ==
    LET t == lower(text)
    IN  IF text = <<>> \/ ~\E k \in 1..Len(sources) : SourceMatches(t, k) THEN None
        ELSE Some(sources[CHOOSE k \in 1..Len(sources) :
                            /\ SourceMatches(t, k)
                            /\ \A j \in 1..(k - 1) : ~SourceMatches(t, j)].tag)

(***************************************************************************)
(* Storage.  A table is the sequence of its rows in insertion order; a     *)
(* row's primary key is its position.  db is the committed content, a      *)
(* session view s is db plus the session's unflushed changes.  Sessions    *)
(* are created with autoflush=False (app/db/database.py), so a query sees  *)
(* the committed rows only, never the rows the session has added.          *)
(***************************************************************************)
EmptyDb == [repos |-> <<>>, issues |-> <<>>, labels |-> <<>>, comments |-> <<>>]

\* query(...).filter(column == value).first(): the row's key, 0 for None
FirstIndex(rows, Test(_)) ==
    IF \E k \in 1..Len(rows) : Test(rows[k])
    THEN CHOOSE k \in 1..Len(rows) :
            Test(rows[k]) /\ \A j \in 1..(k - 1) : ~Test(rows[j])
    ELSE 0

Unique(rows, Key(_)) ==
    \A j, k \in 1..Len(rows) : j # k => Key(rows[j]) # Key(rows[k])

\* unique=True and nullable=False of the column declarations
IntegrityOK(s) ==
    /\ Unique(s.repos, LAMBDA r : r.full_name)
    /\ Unique(s.issues, LAMBDA r : r.github_id)
    /\ Unique(s.labels, LAMBDA r : r.name)
    /\ Unique(s.comments, LAMBDA r : r.github_id)
    /\ \A k \in 1..Len(s.comments) : ~IsNone(s.comments[k].body)

\* a commit that checks no constraint
commit_unchecked(db, s) == [ok |-> TRUE, db |-> s]

\* try: db.commit() except: db.rollback()
\* the flush fails as a whole when a constraint is violated
commit(db, s) ==
    IF IntegrityOK(s) THEN [ok |-> TRUE, db |-> s] ELSE [ok |-> FALSE, db |-> db]

(***************************************************************************)
(* FetchClient: GitHubService.make_request.  A response is                 *)
(*   [status, remaining, reset, body]; status "timeout" stands for the     *)
(*   client raising httpx.TimeoutException; remaining and reset are the    *)
(*   X-RateLimit-Remaining / X-RateLimit-Reset headers, None when absent.  *)
(* rl = [remaining, reset] is the service's rate_limit_remaining and       *)
(* rate_limit_reset.                                                       *)
(***************************************************************************)
InitialRemaining == 5000

InitRl == [remaining |-> InitialRemaining, reset |-> None]

\* a variant that keeps the remaining count when the header is absent
record_rate_limit_keeping(rl, resp) ==
    [remaining |-> IF IsNone(resp.remaining) THEN rl.remaining ELSE Val(resp.remaining),
     reset |-> IF IsNone(resp.reset) THEN rl.reset ELSE resp.reset]

\* lines 61-64: headers.get("X-RateLimit-Remaining", 0), reset only if present
record_rate_limit(rl, resp) ==
    [remaining |-> IF IsNone(resp.remaining) THEN 0 ELSE Val(resp.remaining),
     reset |-> IF IsNone(resp.reset) THEN rl.reset ELSE resp.reset]

\* lines 66-68: status 403 with no request remaining
rate_limited(rl, resp) ==
    resp.status = "403" /\ record_rate_limit(rl, resp).remaining = 0

\* make_request recording the headers of successful responses only
make_request_success_only(rl, resp) ==
    [rl |-> IF resp.status = "200" THEN record_rate_limit(rl, resp) ELSE rl,
     data |-> IF resp.status = "200" THEN resp.body ELSE None]

\* Some(parsed JSON body) or None
make_request(rl, resp) ==
    IF resp.status = "timeout"
    THEN [rl |-> rl, data |-> None]                 \* raised inside client.get
    ELSE LET rl2 == record_rate_limit(rl, resp)
         IN  [rl |-> rl2,
              data |-> IF resp.status = "403" /\ rl2.remaining = 0 THEN None
                       ELSE IF resp.status = "404" THEN None
                       ELSE IF resp.status # "200" THEN None   \* raise_for_status
                       ELSE resp.body]

(***************************************************************************)
(* Payloads of the upstream API.                                           *)
(***************************************************************************)
T_bounty150 == <<"$","1","5","0"," ","B","o","u","n","t","y">>
T_gitcoin25 == <<"$","2","5"," ","g","i","t","c","o","i","n">>
T_fix == <<"f","i","x">>
T_ok == <<"o","k">>
L_bug == <<"b","u","g">>
L_Bug == <<"B","u","g">>
L_help == <<"h","e","l","p">>

\* a well-formed open issue of repository a/x
Item(i) ==
    [id |-> i, number |-> Some(i), title |-> T_bounty150, body |-> Some(T_ok),
     state |-> "open", closed_at |-> None, comments |-> 0, labels |-> <<L_bug>>,
     created_at |-> Some("t0"), updated_at |-> Some("t1"), repo |-> "a/x",
     user |-> Some("dev"), pull_request |-> FALSE]

ItemClosed(i) == [Item(i) EXCEPT !.state = "closed", !.closed_at = Some("t2")]
ItemNullBody(i) == [Item(i) EXCEPT !.body = None]
ItemLow(i) == [Item(i) EXCEPT !.title = T_gitcoin25]
ItemZero(i) == [Item(i) EXCEPT !.title = T_fix, !.labels = <<>>]
ItemTwoLabels(i) == [Item(i) EXCEPT !.labels = <<L_help, L_Bug>>]
ItemNoCreated(i) == [Item(i) EXCEPT !.created_at = None]
ItemBadUpdated(i) == [Item(i) EXCEPT !.updated_at = Some("bad")]
\* the issue under repository b/y
ItemMoved(i) == [Item(i) EXCEPT !.repo = "b/y"]
ItemSample(i) == [Item(i) EXCEPT !.repo = "example/sample-project"]
ItemCaseLabels(i) == [Item(i) EXCEPT !.labels = <<L_Bug, L_bug>>]

RepoData(stars) == [stargazers_count |-> stars, language |-> Some("py")]

Statuses == {"200", "403", "404", "500", "timeout"}

\* the responses with a body of `bodies` on success; a failure carries no body
\* the pipeline reads, a timeout no headers
Responses(statuses, remaining, resets, bodies) ==
    {r \in [status : statuses, remaining : remaining, reset : resets,
            body : {Some(b) : b \in bodies} \cup {None}] :
        /\ (r.status = "200") = (r.body # None)
        /\ r.status = "timeout" => IsNone(r.remaining) /\ IsNone(r.reset)}

\* search results: the given pages of items, and a body without the "items"
\* key
SearchData(pages) == {[items |-> Some(page)] : page \in pages} \cup {[items |-> None]}

\* lines 197-199: body = github_data.get("body", "") or "", and the text
\* f"{title} {body}" the bounty is extracted from
body_of(github_data) == IF IsNone(github_data.body) THEN <<>> ELSE Val(github_data.body)
text_of(github_data) == github_data.title \o <<" ">> \o body_of(github_data)

\* the texts of the payloads above
PayloadTexts ==
    {text_of([title |-> t, body |-> b]) :
        t \in {T_bounty150, T_gitcoin25, T_fix}, b \in {Some(T_ok), None}}

\* extract_bounty_amount and determine_bounty_source tabulated over the
\* payload texts
bounty_amounts == [text \in PayloadTexts |-> extract_bounty_amount(text)]
bounty_sources == [text \in PayloadTexts |-> determine_bounty_source(text)]

(***************************************************************************)
(* Texts for extract_bounty_amount and determine_bounty_source.            *)
(***************************************************************************)
\* pieces of issue text: amounts in the notations of the five patterns, a
\* match that is no number, a word without amount, and the platform keywords
Fragments ==
    {<<"$","1","0"," ">>,
     <<"$","0",".","2","9"," ">>,
     <<"$","1",",","2","5","0",".","5","0"," ">>,
     <<"b","o","u","n","t","y",":"," ","$","5","0","0"," ">>,
     <<"7","5"," ","U","S","D"," ">>,
     <<"R","e","w","a","r","d",":"," ","7"," ">>,
     <<"p","r","i","z","e"," ","3"," ">>,
     <<"$",","," ">>,
     <<"t","i","p"," ">>,
     <<"2"," ","d","o","l","l","a","r","s"," ">>,
     <<"g","i","t","c","o","i","n"," ">>,
     <<"B","o","u","n","t","y","S","o","u","r","c","e"," ">>,
     <<"s","p","o","n","s","o","r"," ">>,
     <<"a","l","g","o","r","a"," ">>,
     <<"c","o","n","s","o","l","e",".","d","e","v"," ">>,
     <<"d","e","v","c","a","s","h"," ">>}

\* the examples of the docstrings and comments of lines 31-35
E_two_amounts == <<"s","m","a","l","l"," ","$","1","0"," ","t","i","p"," ","b","u","t"," ","b","o","u","n","t","y",":"," ","$","5","0","0">>
E_decimal == <<"$","1",",","2","5","0",".","5","0"," ","p","r","i","z","e"," ","a","v","a","i","l","a","b","l","e">>
E_usd == <<"R","e","w","a","r","d",":"," ","7","5"," ","U","S","D"," ","f","o","r"," ","c","o","m","p","l","e","t","i","o","n">>

\* the empty text, one fragment, two fragments in a row, and the examples
Texts ==
    {a \o b : a, b \in Fragments \cup {<<>>}} \cup {E_two_amounts, E_decimal, E_usd}

(***************************************************************************)
(* Time.  now counts ticks of TickHours hours; timestamps are in hours.    *)
(***************************************************************************)
TickHours == 12
HoursPerDay == 24

utcnow(now) == now * TickHours

\* timedelta.days of a difference of delta hours
days(delta) == delta \div HoursPerDay

(***************************************************************************)
(* Timestamps of payloads: a string; "bad" is one datetime.fromisoformat   *)
(* rejects with ValueError.                                                *)
(***************************************************************************)
parses(ts) == ts # "bad"

(***************************************************************************)
(* Repository (app/models/repository.py) and RepositoryUpserter.           *)
(***************************************************************************)
\* Repository(...) of get_or_create_repository, lines 315-338; the column
\* defaults fill fetch_count and the aggregates
new_repository(full_name, repo_data, now) ==
    [full_name |-> full_name,
     stars_count |-> repo_data.stargazers_count,
     primary_language |-> repo_data.language,
     last_fetched_at |-> Some(utcnow(now)),
     fetch_count |-> 1,
     total_bounties |-> 0,
     total_bounty_amount |-> 0,
     active_bounties |-> 0,
     completed_bounties |-> 0]

\* Repository.update_from_github
repository_update_from_github(row, repo_data, now) ==
    [row EXCEPT !.stars_count = repo_data.stargazers_count,
                !.primary_language = repo_data.language,
                !.last_fetched_at = Some(utcnow(now)),
                !.fetch_count = @ + 1]

\* Repository.update_bounty_stats.  The first query (a count) runs, then
\* line 155 evaluates db_session.func: sqlalchemy.orm.Session has no
\* attribute func, so AttributeError is raised before any field is assigned.
update_bounty_stats(s, idx) == [raised |-> TRUE, s |-> s]

\* GitHubService.update_repository_data
update_repository_data_counting(db, rl, idx, resp, now) ==
    [db |-> [db EXCEPT !.repos[idx].fetch_count = @ + 1],
     s |-> [db EXCEPT !.repos[idx].fetch_count = @ + 1],
     rl |-> make_request(rl, resp).rl, raised |-> FALSE]
update_repository_data(db, rl, idx, resp, now) ==
    LET m == make_request(rl, resp)
    IN  IF IsNone(m.data)
        THEN [db |-> db, s |-> db, rl |-> m.rl, raised |-> FALSE]
        ELSE LET s1 == [db EXCEPT !.repos[idx] =
                            repository_update_from_github(@, Val(m.data), now)]
                 st == update_bounty_stats(s1, idx)
                 c == commit(db, st.s)
             IN  IF st.raised
                 THEN [db |-> db, s |-> st.s, rl |-> m.rl, raised |-> TRUE]
                 ELSE [db |-> c.db, s |-> c.db, rl |-> m.rl, raised |-> FALSE]

\* lines 290-291: last_fetched_at and (utcnow() - last_fetched_at).days >= 1
is_stale_after_two_days(row, now) ==
    /\ ~IsNone(row.last_fetched_at)
    /\ days(utcnow(now) - Val(row.last_fetched_at)) >= 2
is_stale_or_never_fetched(row, now) ==
    \/ IsNone(row.last_fetched_at)
    \/ days(utcnow(now) - Val(row.last_fetched_at)) >= 1
is_stale(row, now) ==
    /\ ~IsNone(row.last_fetched_at)
    /\ days(utcnow(now) - Val(row.last_fetched_at)) >= 1

\* get_or_create_repository storing a row without data when the create fetch
\* fails
get_or_create_repository_stub(db, rl, full_name, resp, now) ==
    LET existing_repo == FirstIndex(db.repos, LAMBDA r : r.full_name = full_name)
        m == make_request(rl, resp)
        data == IF IsNone(m.data) THEN RepoData(0) ELSE Val(m.data)
        c == commit(db, [db EXCEPT !.repos =
                            Append(@, new_repository(full_name, data, now))])
    IN  IF existing_repo # 0
        THEN [db |-> db, s |-> db, rl |-> rl, repo |-> existing_repo,
              raised |-> FALSE, reqs |-> <<>>]
        ELSE [db |-> c.db, s |-> c.db, rl |-> m.rl, repo |-> Len(c.db.repos),
              raised |-> FALSE, reqs |-> <<"repo">>]

\* GitHubService.get_or_create_repository; repo is the row's key, 0 for None;
\* reqs lists the requests issued
get_or_create_repository(db, rl, full_name, resp, now) ==
    LET existing_repo == FirstIndex(db.repos, LAMBDA r : r.full_name = full_name)
        u == update_repository_data(db, rl, existing_repo, resp, now)
        m == make_request(rl, resp)
        c == commit(db, [db EXCEPT !.repos =
                            Append(@, new_repository(full_name, Val(m.data), now))])
    IN  IF existing_repo # 0
        THEN IF is_stale(db.repos[existing_repo], now)
             THEN [db |-> u.db, s |-> u.s, rl |-> u.rl, repo |-> existing_repo,
                   raised |-> u.raised, reqs |-> <<"repo">>]
             ELSE [db |-> db, s |-> db, rl |-> rl, repo |-> existing_repo,
                   raised |-> FALSE, reqs |-> <<>>]
        ELSE IF IsNone(m.data)
             THEN [db |-> db, s |-> db, rl |-> m.rl, repo |-> 0,
                   raised |-> FALSE, reqs |-> <<"repo">>]
             ELSE [db |-> c.db, s |-> c.db, rl |-> m.rl,
                   repo |-> IF c.ok THEN Len(c.db.repos) ELSE 0,
                   raised |-> FALSE, reqs |-> <<"repo">>]

(***************************************************************************)
(* Issue (app/models/issue.py) and IssueUpserter.                          *)
(***************************************************************************)
\* IssueStatus.CLOSED if github_data.get("state") == "closed" else OPEN
status_of(github_data) == IF github_data.state = "closed" THEN "closed" ELSE "open"

\* lines 221 and 247
has_bounty_nonnegative(bounty_amount) == bounty_amount >= 0
has_bounty_of(bounty_amount) == bounty_amount > 0

\* line 202
never_below_minimum(bounty_amount, min_amount) == FALSE
below_minimum(bounty_amount, min_amount) == bounty_amount < min_amount

\* update_from_github taking the repository name of the payload as well
issue_update_from_github_moving(row, github_data) ==
    [raised |-> FALSE,
     row |-> [row EXCEPT !.title = github_data.title,
                         !.repository_full_name = github_data.repo,
                         !.fetch_count = @ + 1]]

\* Issue.update_from_github; raised where fromisoformat raises, with the
\* assignments made before it kept on the object
issue_update_from_github(row, github_data) ==
    LET r1 == [row EXCEPT !.title = github_data.title,
                          !.body = github_data.body,
                          !.status = status_of(github_data),
                          !.comments_count = github_data.comments]
        has_updated == ~IsNone(github_data.updated_at)
        has_closed == ~IsNone(github_data.closed_at)
        r2 == IF has_updated
              THEN [r1 EXCEPT !.github_updated_at = Val(github_data.updated_at)]
              ELSE r1
        r3 == IF has_closed
              THEN [r2 EXCEPT !.github_closed_at = github_data.closed_at]
              ELSE r2
    IN  IF has_updated /\ ~parses(Val(github_data.updated_at))
        THEN [raised |-> TRUE, row |-> r1]
        ELSE IF has_closed /\ ~parses(Val(github_data.closed_at))
        THEN [raised |-> TRUE, row |-> r2]
        ELSE [raised |-> FALSE, row |-> [r3 EXCEPT !.fetch_count = @ + 1]]

\* the subscripted keys read on the create path: a missing key raises
\* KeyError, an unparseable timestamp ValueError (lines 226-251)
create_raises(github_data) ==
    \/ IsNone(github_data.created_at)
    \/ ~parses(Val(github_data.created_at))
    \/ IsNone(github_data.updated_at)
    \/ ~parses(Val(github_data.updated_at))
    \/ IsNone(github_data.number)
    \/ IsNone(github_data.user)

\* Issue(...) of process_issue_from_search, lines 233-257
new_issue(github_data, body, bounty_amount, text, repository_id, repository) ==
    [github_id |-> github_data.id,
     github_number |-> Val(github_data.number),
     title |-> github_data.title,
     body |-> Some(body),
     repository_id |-> repository_id,
     repository_full_name |-> github_data.repo,
     status |-> status_of(github_data),
     is_pull_request |-> github_data.pull_request,
     bounty_amount |-> bounty_amount,
     has_bounty |-> has_bounty_of(bounty_amount),
     bounty_source |-> bounty_sources[text],
     author_username |-> Val(github_data.user),
     comments_count |-> github_data.comments,
     github_created_at |-> Val(github_data.created_at),
     github_updated_at |-> Val(github_data.updated_at),
     github_closed_at |-> None,
     fetch_count |-> 1,
     primary_language |-> repository.primary_language,
     labels |-> <<>>]

\* line 404: if label not in issue.labels
label_never_attached(label, labels) == FALSE
label_attached(label, labels) == label \in Range(labels)

\* the body of the loop of process_issue_labels, lines 385-405, for one label
\* name; the label query runs against the committed rows of db
attach_label(db, s, issue, name) ==
    LET label_name == lower(name)
        existing_label == FirstIndex(db.labels, LAMBDA r : r.name = label_name)
        s1 == IF existing_label = 0
              THEN [s EXCEPT !.labels = Append(@, [name |-> label_name])]
              ELSE s
        label == IF existing_label = 0 THEN Len(s.labels) + 1 ELSE existing_label
    IN  IF label_attached(label, s.issues[issue].labels) THEN s1
        ELSE [s1 EXCEPT !.issues[issue].labels = Append(@, label)]

\* GitHubService.process_issue_labels on the session view s
RECURSIVE process_issue_labels(_, _, _, _)
process_issue_labels(db, s, issue, labels_data) ==
    IF labels_data = <<>> THEN s
    ELSE With(attach_label(db, s, issue, Head(labels_data)),
              LAMBDA s1 : process_issue_labels(db, s1, issue, Tail(labels_data)))

\* save_issue with the issue's labels replaced by those of the payload
save_issue_replacing(g, s, issue, labels_data) ==
    With(commit(g.db, process_issue_labels(g.db,
                          [s EXCEPT !.issues[issue].labels = <<>>],
                          issue, labels_data)),
         LAMBDA c : [db |-> c.db, s |-> c.db, rl |-> g.rl,
                     ret |-> IF c.ok THEN issue ELSE 0, raised |-> FALSE,
                     reqs |-> g.reqs])

\* lines 262-271: the labels, then the commit; ret is the key of the returned
\* Issue, 0 for None
save_issue(g, s, issue, labels_data) ==
    With(commit(g.db, process_issue_labels(g.db, s, issue, labels_data)),
         LAMBDA c : [db |-> c.db, s |-> c.db, rl |-> g.rl,
                     ret |-> IF c.ok THEN issue ELSE 0, raised |-> FALSE,
                     reqs |-> g.reqs])

\* lines 218-223: the update path
update_issue(g, issue, github_data, text, bounty_amount) ==
    With(issue_update_from_github(g.db.issues[issue], github_data),
         LAMBDA upd :
            IF upd.raised
            THEN [db |-> g.db, s |-> [g.db EXCEPT !.issues[issue] = upd.row],
                  rl |-> g.rl, ret |-> 0, raised |-> TRUE, reqs |-> g.reqs]
            ELSE save_issue(g,
                     [g.db EXCEPT !.issues[issue] =
                         [upd.row EXCEPT
                             !.bounty_amount = bounty_amount,
                             !.has_bounty = has_bounty_of(bounty_amount),
                             !.bounty_source = bounty_sources[text]]],
                     issue, github_data.labels))

\* lines 226-259: the create path
create_issue(g, github_data, body, text, bounty_amount) ==
    IF create_raises(github_data)
    THEN [db |-> g.db, s |-> g.db, rl |-> g.rl, ret |-> 0, raised |-> TRUE,
          reqs |-> g.reqs]
    ELSE save_issue(g,
             [g.db EXCEPT !.issues =
                 Append(@, new_issue(github_data, body, bounty_amount, text,
                                     g.repo, g.db.repos[g.repo]))],
             Len(g.db.issues) + 1, github_data.labels)

\* GitHubService.process_issue_from_search.  raised marks an exception
\* leaving the method, with s the session's view at that point.
process_issue_from_search(db, rl, github_data, min_amount, resp, now) ==
    With(bounty_amounts[text_of(github_data)],
         LAMBDA bounty_amount :
            IF below_minimum(bounty_amount, min_amount)
            THEN [db |-> db, s |-> db, rl |-> rl, ret |-> 0, raised |-> FALSE,
                  reqs |-> <<>>]
            ELSE With(get_or_create_repository(db, rl, github_data.repo, resp, now),
                      LAMBDA g :
                         IF g.raised
                         THEN [db |-> g.db, s |-> g.s, rl |-> g.rl, ret |-> 0,
                               raised |-> TRUE, reqs |-> g.reqs]
                         ELSE IF g.repo = 0
                         THEN [db |-> g.db, s |-> g.db, rl |-> g.rl, ret |-> 0,
                               raised |-> FALSE, reqs |-> g.reqs]
                         ELSE With(FirstIndex(db.issues,
                                       LAMBDA r : r.github_id = github_data.id),
                                   LAMBDA existing_issue :
                                      IF existing_issue # 0
                                      THEN update_issue(g, existing_issue, github_data,
                                               text_of(github_data), bounty_amount)
                                      ELSE create_issue(g, github_data,
                                               body_of(github_data),
                                               text_of(github_data), bounty_amount))))

\* get_or_create_repository from its request on, lines 297-355 and 361-374:
\* existing_repo is what the query of lines 284-286 returned before the
\* request, the commit runs against the rows committed by now
resume_repository(db, rl, existing_repo, full_name, resp, now) ==
    LET u == update_repository_data(db, rl, existing_repo, resp, now)
        m == make_request(rl, resp)
        c == commit(db, [db EXCEPT !.repos =
                            Append(@, new_repository(full_name, Val(m.data), now))])
    IN  IF existing_repo # 0
        THEN [db |-> u.db, s |-> u.s, rl |-> u.rl, repo |-> existing_repo,
              raised |-> u.raised, reqs |-> <<"repo">>]
        ELSE IF IsNone(m.data)
             THEN [db |-> db, s |-> db, rl |-> m.rl, repo |-> 0,
                   raised |-> FALSE, reqs |-> <<"repo">>]
             ELSE [db |-> c.db, s |-> c.db, rl |-> m.rl,
                   repo |-> IF c.ok THEN Len(c.db.repos) ELSE 0,
                   raised |-> FALSE, reqs |-> <<"repo">>]

\* the Issue object read at line 194, as the session holds it after other
\* sessions committed: the columns this session assigns are computed from
\* the payload, except fetch_count, incremented from the value it loaded
loaded_issue(db, seen) ==
    [db EXCEPT !.issues[seen.issue].fetch_count = seen.fetch_count]

\* process_issue_from_search from its repository request on, lines 212-271:
\* seen holds what the queries of lines 194 and 284-286 returned before the
\* request
resume_issue(db, rl, github_data, seen, resp, now) ==
    With(resume_repository(db, rl, seen.repo, github_data.repo, resp, now),
         LAMBDA g :
            IF g.raised
            THEN [db |-> g.db, s |-> g.s, rl |-> g.rl, ret |-> 0,
                  raised |-> TRUE, reqs |-> g.reqs]
            ELSE IF g.repo = 0
            THEN [db |-> g.db, s |-> g.db, rl |-> g.rl, ret |-> 0,
                  raised |-> FALSE, reqs |-> g.reqs]
            ELSE IF seen.issue # 0
            THEN With(update_issue([g EXCEPT !.db = loaded_issue(g.db, seen)],
                                   seen.issue, github_data, text_of(github_data),
                                   bounty_amounts[text_of(github_data)]),
                      LAMBDA r : IF r.ret = 0 THEN [r EXCEPT !.db = g.db] ELSE r)
            ELSE create_issue(g, github_data, body_of(github_data),
                              text_of(github_data),
                              bounty_amounts[text_of(github_data)]))

(***************************************************************************)
(* IssueComment and CommentSync; the sync_issue endpoint.                  *)
(***************************************************************************)
\* the loop of fetch_issue_comments, lines 422-453: returns the session view
\* and the list `comments` (by external id)
\* line 430: if existing_comment
comment_never_stored(existing_comment) == FALSE
comment_stored(existing_comment) == existing_comment # 0

RECURSIVE sync_comment_rows(_, _, _, _, _)
sync_comment_rows(db, s, issue, comments_data, comments) ==
    IF comments_data = <<>> THEN [s |-> s, comments |-> comments]
    ELSE LET comment_data == Head(comments_data)
             existing_comment ==
                 FirstIndex(db.comments, LAMBDA r : r.github_id = comment_data.id)
             row == [github_id |-> comment_data.id, issue_id |-> issue,
                     body |-> comment_data.body]
         IN  IF comment_stored(existing_comment)
             THEN sync_comment_rows(db, s, issue, Tail(comments_data), comments)
             ELSE sync_comment_rows(db, [s EXCEPT !.comments = Append(@, row)],
                                    issue, Tail(comments_data),
                                    Append(comments, comment_data.id))

\* GitHubService.fetch_issue_comments, called with session view s; fetched
\* tells whether the request returned the collection, saved whether the
\* commit of lines 455-460 went through
fetch_issue_comments(db, s, rl, issue, resp) ==
    LET m == make_request(rl, resp)
        l == sync_comment_rows(db, s, issue, Val(m.data), <<>>)
        c == commit(db, l.s)
    IN  IF IsNone(m.data) \/ Val(m.data) = <<>>      \* if not comments_data
        THEN [db |-> db, s |-> s, rl |-> m.rl, comments |-> <<>>,
              fetched |-> ~IsNone(m.data), saved |-> FALSE]
        ELSE [db |-> c.db, s |-> c.db, rl |-> m.rl, comments |-> l.comments,
              fetched |-> TRUE, saved |-> c.ok]

\* sync_issue of app/api/issues.py for a stored issue and a moderator:
\* its own GitHubService(), the issue request, update_from_github,
\* fetch_issue_comments, db.commit(); any exception: rollback, HTTP 500
sync_issue(db, issue, resp_issue, resp_comments) ==
    LET m == make_request(InitRl, resp_issue)
        upd == issue_update_from_github(db.issues[issue], Val(m.data))
        s1 == [db EXCEPT !.issues[issue] = upd.row]
        f == fetch_issue_comments(db, s1, m.rl, issue, resp_comments)
        c == commit(f.db, f.s)
    IN  IF IsNone(m.data) \/ upd.raised
        THEN [db |-> db, comments |-> <<>>, called |-> FALSE, fetched |-> FALSE,
              saved |-> FALSE, failed |-> TRUE]
        ELSE [db |-> c.db, comments |-> f.comments, called |-> TRUE,
              fetched |-> f.fetched, saved |-> f.saved, failed |-> ~c.ok]

(***************************************************************************)
(* State.                                                                  *)
(***************************************************************************)
VARIABLES
    db,           \* committed storage
    rl,           \* rate-limit state of the crawler's GitHubService
    now,          \* clock, in ticks
    crawl,        \* the running search_bounty_issues call, if any; limited is
                  \* history: a response of this call was 403 with 0 remaining
    gh_comments,  \* upstream: the comment collection of each issue
    last_item,    \* history: payload of the last upsert, if it returned the issue
    out,          \* history: what the last step requested and returned
    calc,         \* a call of a text function: its argument and its result
    race          \* two upserts at once: each one's position, what it read
                  \* before its repository request, and what it returned

vars == <<db, rl, now, crawl, gh_comments, last_item, out, calc, race>>

IssueIds == {1, 2}

MaxTicks == 2
MaxFetch == 3
MaxComments == 2

Idle == [pc |-> "idle", caller |-> "", min_amount |-> 0, max_pages |-> 0, page |-> 0,
         items |-> <<>>, new_issues |-> <<>>, page_requests |-> 0, stop |-> "",
         limited |-> FALSE, nocount |-> "never"]

\* history of the crawl's responses: whether the latest one ("last"), an
\* earlier one only ("earlier") or none ("never") lacked the remaining-count
\* header; h is what headers_of gives for the new response
after_response(nocount, h) ==
    IF IsNone(h) THEN nocount
    ELSE IF IsNone(Val(h).remaining) THEN "last"
    ELSE IF nocount = "never" THEN "never" ELSE "earlier"

NoOut == [op |-> "", item |-> None, again |-> FALSE, reqs |-> <<>>, fetched |-> FALSE,
          heard |-> None, checked |-> None, saved |-> FALSE, page_items |-> 0,
          ret |-> 0,
          raised |-> FALSE, comments |-> <<>>]

\* the rate-limit headers of the response to a request, None when the client
\* raised before any response
headers_of(resp) ==
    IF resp.status = "timeout" THEN None
    ELSE Some([remaining |-> resp.remaining, reset |-> resp.reset])

NoCalc == [fn |-> "", text |-> <<>>, res |-> None]

Crawls == {1, 2}

NoSeen == [issue |-> 0, fetch_count |-> 0, repo |-> 0]

NoRace == [p \in Crawls |->
             [pc |-> "idle", caller |-> "", item |-> None, seen |-> NoSeen,
              fetched |-> FALSE, ret |-> 0, raised |-> FALSE,
              lost |-> FALSE]]

Init ==
    /\ db = EmptyDb
    /\ rl = InitRl
    /\ now = 0
    /\ crawl = Idle
    /\ gh_comments = [i \in IssueIds |-> <<>>]
    /\ last_item = None
    /\ out = NoOut
    /\ calc = NoCalc
    /\ race = NoRace

\* the model's cap on the fetch counters
WithinCap(d) ==
    /\ \A k \in 1..Len(d.repos) : d.repos[k].fetch_count <= MaxFetch
    /\ \A k \in 1..Len(d.issues) : d.issues[k].fetch_count <= MaxFetch

(***************************************************************************)
(* SearchCrawler: GitHubService.search_bounty_issues, one action per       *)
(* suspension point.                                                       *)
(***************************************************************************)
\* the call, lines 140-155, by periodic_github_sync (app/main.py), by
\* initialize_application (init_app.py) or under a get_db session
CrawlStart(caller, min_amount, max_pages) ==
    /\ crawl.pc = "idle"
    /\ crawl' = [Idle EXCEPT !.pc = "page", !.caller = caller,
                             !.min_amount = min_amount, !.max_pages = max_pages,
                             !.page = 1]
    /\ out' = [NoOut EXCEPT !.op = "start"]
    /\ UNCHANGED <<db, rl, now, gh_comments, last_item, calc, race>>

\* line 158
budget_exhausted_at_zero(remaining) == remaining <= 0
budget_exhausted_at_ten(remaining) == remaining <= 10
budget_exhausted(remaining) == remaining < 10

\* lines 165-171: if not data or "items" not in data, if not items
no_items_only_missing(data) == IsNone(data) \/ IsNone(Val(data).items)
no_items(data) ==
    \/ IsNone(data)                  \* not data
    \/ IsNone(Val(data).items)       \* "items" not in data
    \/ Val(Val(data).items) = <<>>   \* not items

\* top of the loop body, lines 158-171: the budget check and the page request
CrawlPage(resp) ==
    /\ crawl.pc = "page"
    /\ \E m \in {make_request(rl, resp)} :
         IF budget_exhausted(rl.remaining)
         THEN /\ crawl' = [crawl EXCEPT !.pc = "returned", !.stop = "budget"]
              /\ rl' = rl
              /\ out' = [NoOut EXCEPT !.op = "page", !.checked = Some(rl.remaining)]
         ELSE /\ rl' = m.rl
              /\ out' = [NoOut EXCEPT
                           !.op = "page", !.reqs = <<"search">>,
                           !.fetched = ~IsNone(m.data),
                           !.heard = headers_of(resp),
                           !.checked = Some(rl.remaining),
                           !.page_items = IF no_items(m.data) THEN 0
                                          ELSE Len(Val(Val(m.data).items))]
              /\ crawl' = IF no_items(m.data)
                          THEN [crawl EXCEPT !.pc = "returned", !.stop = "page",
                                             !.page_requests = @ + 1,
                                             !.limited = @ \/ rate_limited(rl, resp),
                                             !.nocount = after_response(@, headers_of(resp))]
                          ELSE [crawl EXCEPT !.pc = "items",
                                             !.items = Val(Val(m.data).items),
                                             !.page_requests = @ + 1,
                                             !.nocount = after_response(@, headers_of(resp))]
    /\ UNCHANGED <<db, now, gh_comments, last_item, calc, race>>

\* what the caller's session handling leaves committed when the crawl raises:
\* get_db_context under periodic_github_sync and get_db roll back; init_app.py
\* catches the exception inside the with block, whose exit then commits the
\* session
after_raise(caller, committed, s) ==
    IF caller = "init" THEN commit(committed, s).db ELSE committed

\* lines 173-176 for one item
CrawlItem(resp) ==
    /\ crawl.pc = "items"
    /\ \E item \in {Head(crawl.items)}, rest \in {Tail(crawl.items)} :
       \E r \in {process_issue_from_search(db, rl, item, crawl.min_amount, resp, now)} :
         /\ db' = IF r.raised THEN after_raise(crawl.caller, r.db, r.s) ELSE r.db
         /\ WithinCap(db')
         /\ rl' = r.rl
         /\ crawl' = IF r.raised
                     THEN [crawl EXCEPT !.pc = "raised", !.stop = "raise"]
                     ELSE [crawl EXCEPT
                             !.items = rest,
                             !.limited = @ \/ (r.reqs # <<>> /\ rate_limited(rl, resp)),
                             !.nocount = IF r.reqs # <<>>
                                         THEN after_response(@, headers_of(resp))
                                         ELSE @,
                             !.new_issues = IF r.ret # 0 THEN Append(@, r.ret) ELSE @,
                             !.pc = IF rest = <<>> THEN "sleep" ELSE "items"]
         /\ last_item' = IF r.ret # 0 THEN Some(item) ELSE None
         /\ out' = [NoOut EXCEPT !.op = "item", !.item = Some(item),
                                 !.again = (last_item = Some(item)), !.reqs = r.reqs,
                                 !.fetched = r.reqs # <<>>
                                                /\ ~IsNone(make_request(rl, resp).data),
                                 !.heard = IF r.reqs # <<>> THEN headers_of(resp)
                                           ELSE None,
                                 !.ret = r.ret, !.raised = r.raised]
    /\ UNCHANGED <<now, gh_comments, calc, race>>

\* a sleep after which the loop takes up the same page again
CrawlSleepSamePage ==
    /\ crawl.pc = "sleep"
    /\ crawl' = [crawl EXCEPT !.pc = "page"]
    /\ out' = [NoOut EXCEPT !.op = "sleep"]
    /\ UNCHANGED <<db, rl, now, gh_comments, last_item, calc, race>>

\* line 179 and the end of the loop, line 181
CrawlSleep ==
    /\ crawl.pc = "sleep"
    /\ crawl' = IF crawl.page + 1 > crawl.max_pages
                THEN [crawl EXCEPT !.pc = "returned", !.stop = "pages"]
                ELSE [crawl EXCEPT !.pc = "page", !.page = @ + 1]
    /\ out' = [NoOut EXCEPT !.op = "sleep"]
    /\ UNCHANGED <<db, rl, now, gh_comments, last_item, calc, race>>

\* the caller is done with the result (or with the exception)
CrawlEnd ==
    /\ crawl.pc \in {"returned", "raised"}
    /\ crawl' = Idle
    /\ out' = [NoOut EXCEPT !.op = "end"]
    /\ UNCHANGED <<db, rl, now, gh_comments, last_item, calc, race>>

(***************************************************************************)
(* The sync endpoint, the clock and the upstream.                          *)
(***************************************************************************)
\* a successful response to the comments request carries the collection the
\* upstream holds for issue i
served_comments(i, resp) ==
    [resp EXCEPT !.body = IF IsNone(@) THEN None ELSE Some(gh_comments[i])]

\* POST /issues/{id}/sync for the stored issue with external id i.  The
\* handler runs on the event loop of the crawler, whose only suspension point
\* inside a crawl is the sleep between pages.
SyncIssue(i, resp_issue, resp_comments) ==
    /\ crawl.pc \in {"idle", "sleep"}
    /\ \E issue \in {FirstIndex(db.issues, LAMBDA row : row.github_id = i)} :
         /\ issue # 0
         /\ \E r \in {sync_issue(db, issue, resp_issue,
                                 served_comments(i, resp_comments))} :
              /\ db' = r.db
              /\ WithinCap(db')
              /\ out' = [NoOut EXCEPT !.op = "sync", !.item = Some(i),
                                      !.again = (out.op = "sync" /\ out.item = Some(i)
                                                    /\ ~out.raised),
                                      !.fetched = r.fetched, !.saved = r.saved,
                                      !.comments = r.comments,
                                      !.raised = ~r.called]
    /\ last_item' = None
    /\ UNCHANGED <<rl, now, crawl, gh_comments, calc, race>>

Tick ==
    /\ now < MaxTicks
    /\ now' = now + 1
    /\ out' = [NoOut EXCEPT !.op = "tick"]
    /\ UNCHANGED <<db, rl, crawl, gh_comments, last_item, calc, race>>

NumComments == Len(gh_comments[1]) + Len(gh_comments[2])

\* somebody comments on issue i upstream
UpstreamComment(i, body) ==
    /\ NumComments < MaxComments
    /\ gh_comments' = [gh_comments EXCEPT ![i] =
                          Append(@, [id |-> NumComments + 1, body |-> body])]
    /\ out' = [NoOut EXCEPT !.op = "comment"]
    /\ UNCHANGED <<db, rl, now, crawl, last_item, calc, race>>

\* create_sample_data of init_app.py: the sample repository, constructed
\* without last_fetched_at, and its three issues, each added unless a row of
\* its key is stored; the issues' external ids "issue_1" .. "issue_3" are
\* written 41 .. 43 and their texts are left out
CreateSampleData ==
    LET sample_repo ==
            [full_name |-> "example/sample-project", stars_count |-> 150,
             primary_language |-> Some("Python"), last_fetched_at |-> None,
             fetch_count |-> 1, total_bounties |-> 0, total_bounty_amount |-> 0,
             active_bounties |-> 0, completed_bounties |-> 0]
        existing_repo ==
            FirstIndex(db.repos, LAMBDA r : r.full_name = sample_repo.full_name)
        db1 == IF existing_repo = 0
               THEN commit(db, [db EXCEPT !.repos = Append(@, sample_repo)]).db
               ELSE db
        repo_id == FirstIndex(db1.repos, LAMBDA r : r.full_name = sample_repo.full_name)
        issue(n, amount, source) ==
            [github_id |-> n, github_number |-> n + 1, title |-> <<>>,
             body |-> Some(<<>>), repository_id |-> repo_id,
             repository_full_name |-> sample_repo.full_name, status |-> "open",
             is_pull_request |-> FALSE, bounty_amount |-> amount, has_bounty |-> TRUE,
             bounty_source |-> Some(source), author_username |-> "example-user",
             comments_count |-> 3, github_created_at |-> "t0",
             github_updated_at |-> "t1", github_closed_at |-> None,
             fetch_count |-> 1, primary_language |-> sample_repo.primary_language,
             labels |-> <<>>]
        sample_issues == <<issue(41, 15000, "custom"), issue(42, 7500, "github"),
                           issue(43, 5000, "bountysource")>>
        stored(n) == \E k \in 1..Len(db1.issues) : db1.issues[k].github_id = n
        added == SelectSeq(sample_issues, LAMBDA row : ~stored(row.github_id))
    IN  /\ crawl.pc = "idle"
        /\ db' = commit(db1, [db1 EXCEPT !.issues = @ \o added]).db
        /\ out' = [NoOut EXCEPT !.op = "sample"]
        /\ last_item' = None
        /\ UNCHANGED <<rl, now, crawl, gh_comments, calc, race>>

(***************************************************************************)
(* Calls of the text functions.                                            *)
(***************************************************************************)
\* a text is handed to the service
InitText ==
    /\ db = EmptyDb
    /\ rl = InitRl
    /\ now = 0
    /\ crawl = Idle
    /\ gh_comments = [i \in IssueIds |-> <<>>]
    /\ last_item = None
    /\ out = NoOut
    /\ race = NoRace
    /\ \E text \in Texts : calc = [NoCalc EXCEPT !.text = text]

\* extract_bounty_amount(text)
ExtractAmount ==
    /\ calc.fn = ""
    /\ calc' = [calc EXCEPT !.fn = "amount",
                            !.res = Some(extract_bounty_amount(calc.text))]
    /\ UNCHANGED <<db, rl, now, crawl, gh_comments, last_item, out, race>>

\* determine_bounty_source(text)
DetermineSource ==
    /\ calc.fn = ""
    /\ calc' = [calc EXCEPT !.fn = "source",
                            !.res = determine_bounty_source(calc.text)]
    /\ UNCHANGED <<db, rl, now, crawl, gh_comments, last_item, out, race>>

(***************************************************************************)
(* Two crawls at once: periodic_github_sync in the server and              *)
(* initialize_application in its own process, each with its own session    *)
(* and GitHubService, each inside process_issue_from_search for an item of *)
(* its page.  The only suspension point of the upsert is the repository    *)
(* request; the responses leave the request budget alone.                  *)
(***************************************************************************)
\* whether the upsert issues a repository request
suspends(item, min_amount) ==
    process_issue_from_search(db, InitRl, item, min_amount,
        [status |-> "timeout", remaining |-> None, reset |-> None, body |-> None],
        now).reqs # <<>>

\* lines 191-212: the queries, the threshold, and either the whole upsert or
\* its part before the repository request
RaceBegin(p, item, call) ==
    /\ race[p].pc = "idle"
    /\ \E existing_issue \in {FirstIndex(db.issues, LAMBDA r : r.github_id = item.id)},
          existing_repo \in {FirstIndex(db.repos, LAMBDA r : r.full_name = item.repo)} :
         IF suspends(item, call.min_amount)
         THEN /\ race' = [race EXCEPT ![p] =
                    [pc |-> "fetch", caller |-> call.caller, item |-> Some(item),
                     seen |-> [issue |-> existing_issue,
                               fetch_count |-> IF existing_issue = 0 THEN 0
                                               ELSE db.issues[existing_issue].fetch_count,
                               repo |-> existing_repo],
                     fetched |-> FALSE, ret |-> 0, raised |-> FALSE,
                     lost |-> FALSE]]
              /\ db' = db
         ELSE \E r \in {process_issue_from_search(db, InitRl, item, call.min_amount,
                            [status |-> "timeout", remaining |-> None,
                             reset |-> None, body |-> None], now)} :
                /\ db' = IF r.raised THEN after_raise(call.caller, r.db, r.s) ELSE r.db
                /\ WithinCap(db')
                /\ race' = [race EXCEPT ![p] =
                      [pc |-> "done", caller |-> call.caller, item |-> Some(item),
                       seen |-> NoSeen, fetched |-> FALSE, ret |-> r.ret,
                       raised |-> r.raised, lost |-> FALSE]]
    /\ UNCHANGED <<rl, now, crawl, gh_comments, last_item, out, calc>>

\* the response to the repository request arrives: lines 212-271 run to the
\* return; fetched tells that the request returned data, lost that the other
\* crawl stored, meanwhile, the repository or the issue this one had found
\* absent
RaceFinish(p, resp) ==
    /\ race[p].pc = "fetch"
    /\ \E item \in {Val(race[p].item)} :
       \E r \in {resume_issue(db, InitRl, item, race[p].seen, resp, now)} :
         /\ db' = IF r.raised THEN after_raise(race[p].caller, r.db, r.s) ELSE r.db
         /\ WithinCap(db')
         /\ race' = [race EXCEPT ![p].pc = "done", ![p].ret = r.ret,
                       ![p].raised = r.raised,
                       ![p].fetched = ~IsNone(make_request(InitRl, resp).data),
                       ![p].lost =
                          \/ /\ race[p].seen.repo = 0
                             /\ \E k \in 1..Len(db.repos) : db.repos[k].full_name = item.repo
                          \/ /\ race[p].seen.issue = 0
                             /\ \E k \in 1..Len(db.issues) : db.issues[k].github_id = item.id]
    /\ UNCHANGED <<rl, now, crawl, gh_comments, last_item, out, calc>>

\* the crawl goes on to its next item
RaceReturn(p) ==
    /\ race[p].pc = "done"
    /\ race' = [race EXCEPT ![p] = NoRace[p]]
    /\ UNCHANGED <<db, rl, now, crawl, gh_comments, last_item, out, calc>>

(***************************************************************************)
(* Specifications.                                                         *)
(***************************************************************************)
NoHeader == {None}
Plenty == {Some(50)}

\* the outcomes of a request that the pipeline tells apart when the budget
\* is not at stake
Outcomes == {"200", "404", "timeout"}

RepoResponses == Responses(Outcomes, Plenty, NoHeader, {RepoData(7)})

UpsertPages ==
    {<<Item(1)>>, <<ItemClosed(1)>>, <<ItemLow(1)>>, <<ItemZero(1)>>,
     <<ItemTwoLabels(1)>>, <<Item(2)>>,
     <<ItemNoCreated(2), Item(1)>>, <<ItemBadUpdated(1), Item(2)>>}

SearchResponses == Responses(Outcomes, Plenty, NoHeader, SearchData(UpsertPages))

\* the crawls: periodic_github_sync and initialize_application with the
\* min_amount each passes, and a caller holding a get_db session that passes
\* 0, the default of process_issue_from_search, under which an issue without
\* bounty text is stored
MinPeriodic == 5000
MinInit == 2500
Calls == {[caller |-> "periodic", min_amount |-> MinPeriodic],
          [caller |-> "init", min_amount |-> MinInit],
          [caller |-> "request", min_amount |-> 0]}

\* The crawler upserting issues of one repository, one page of results per
\* crawl, while the clock advances.
Next ==
    \/ \E call \in Calls : CrawlStart(call.caller, call.min_amount, 1)
    \/ \E resp \in SearchResponses : CrawlPage(resp)
    \/ \E resp \in RepoResponses : CrawlItem(resp)
    \/ CrawlSleep
    \/ CrawlEnd
    \/ Tick

Spec == Init /\ [][Next]_vars

\* Crawls of several pages whose responses report the remaining budget.
BudgetPages == {<<>>, <<Item(1)>>, <<Item(2)>>, <<Item(1), Item(2)>>}

BudgetLeft == {Some(0), Some(5), Some(9), Some(10), Some(50)}

NextBudget ==
    \/ \E max_pages \in {2, 3} : CrawlStart("periodic", MinPeriodic, max_pages)
    \/ \E resp \in Responses(Statuses, BudgetLeft, NoHeader, SearchData(BudgetPages)) :
          CrawlPage(resp)
    \/ \E resp \in Responses(Statuses, BudgetLeft, NoHeader, {RepoData(7)}) :
          CrawlItem(resp)
    \/ CrawlSleep
    \/ CrawlEnd

SpecBudget == Init /\ [][NextBudget]_vars

\* Upserts and syncs of two issues that gather comments upstream.
SyncPages == {<<Item(1)>>, <<ItemZero(1)>>, <<Item(2)>>}

NextSync ==
    \/ CrawlStart("request", 0, 1)
    \/ \E resp \in Responses({"200"}, Plenty, NoHeader, SearchData(SyncPages)) :
          CrawlPage(resp)
    \/ \E resp \in Responses({"200"}, Plenty, NoHeader, {RepoData(7)}) : CrawlItem(resp)
    \/ CrawlSleep
    \/ CrawlEnd
    \/ \E i \in IssueIds, body \in {Some(T_ok), None} : UpstreamComment(i, body)
    \/ \E i \in IssueIds :
          \E resp_issue \in Responses(Outcomes, Plenty, NoHeader, {Item(i)}),
             resp_comments \in Responses(Outcomes, Plenty, NoHeader, {<<>>}) :
             SyncIssue(i, resp_issue, resp_comments)

SpecSync == Init /\ [][NextSync]_vars

\* Upserts of issues of two repositories, one of them re-encountered under
\* the other repository.
RepoPages ==
    {<<Item(1)>>, <<ItemMoved(1)>>, <<Item(2), ItemMoved(2)>>, <<ItemCaseLabels(1)>>}

NextRepo ==
    \/ CrawlStart("request", 0, 1)
    \/ \E resp \in Responses({"200"}, Plenty, NoHeader, SearchData(RepoPages)) :
          CrawlPage(resp)
    \/ \E resp \in Responses(Statuses, Plenty, NoHeader, {RepoData(7)}) : CrawlItem(resp)
    \/ CrawlSleep
    \/ CrawlEnd

SpecRepo == Init /\ [][NextRepo]_vars

\* Two crawls upserting, each at its own pace, the items of one repository.
RaceItems == {Item(1), Item(2), ItemTwoLabels(1)}

PeriodicCall == [caller |-> "periodic", min_amount |-> MinPeriodic]
InitCall == [caller |-> "init", min_amount |-> MinInit]

NextRace ==
    \/ \E item \in RaceItems : RaceBegin(1, item, PeriodicCall)
    \/ \E item \in RaceItems : RaceBegin(2, item, InitCall)
    \/ \E p \in Crawls : \E resp \in RepoResponses : RaceFinish(p, resp)
    \/ \E p \in Crawls : RaceReturn(p)
    \/ Tick

SpecRace == Init /\ [][NextRace]_vars

\* Crawls of several pages whose responses carry, or lack, the remaining
\* count and the reset time: one that has passed, one that lies ahead.
LimitResponses(bodies) ==
    Responses(Statuses, {None, Some(9), Some(10)}, {None, Some(0), Some(5)}, bodies)

NextLimit ==
    \/ \E max_pages \in {2, 3} : CrawlStart("periodic", MinPeriodic, max_pages)
    \/ \E resp \in LimitResponses(SearchData(BudgetPages)) : CrawlPage(resp)
    \/ \E resp \in LimitResponses({RepoData(7)}) : CrawlItem(resp)
    \/ CrawlSleep
    \/ CrawlEnd

SpecLimit == Init /\ [][NextLimit]_vars

\* the fetch counters leave room, under the model's cap, for a crawl of
\* max_pages pages to update each stored row once per page
Headroom(max_pages) ==
    /\ \A k \in 1..Len(db.repos) : db.repos[k].fetch_count + max_pages <= MaxFetch
    /\ \A k \in 1..Len(db.issues) : db.issues[k].fetch_count + max_pages <= MaxFetch

CrawlStartWithin(max_pages) ==
    Headroom(max_pages) /\ CrawlStart("periodic", MinPeriodic, max_pages)

TermResponses(bodies) ==
    Responses({"200", "500", "timeout"}, {Some(9), Some(50)}, NoHeader, bodies)

\* Crawls of several pages, each of whose requests is answered in the end and
\* whose sleep ends, while the clock advances.
NextTerm ==
    \/ \E max_pages \in {2, 3} : CrawlStartWithin(max_pages)
    \/ \E resp \in TermResponses(SearchData(BudgetPages)) : CrawlPage(resp)
    \/ \E resp \in TermResponses({RepoData(7)}) : CrawlItem(resp)
    \/ CrawlSleep
    \/ CrawlEnd
    \/ Tick

SpecTerm ==
    /\ Init /\ [][NextTerm]_vars
    /\ WF_vars(\E resp \in TermResponses(SearchData(BudgetPages)) : CrawlPage(resp))
    /\ WF_vars(\E resp \in TermResponses({RepoData(7)}) : CrawlItem(resp))
    /\ WF_vars(CrawlSleep)

\* The crawler upserting issues of the sample repository and of another
\* one, after the sample data was created, while the clock advances.
NextSample ==
    \/ CreateSampleData
    \/ CrawlStart("periodic", MinPeriodic, 1)
    \/ \E resp \in Responses({"200"}, Plenty, NoHeader,
                              SearchData({<<ItemSample(1)>>, <<Item(2), ItemSample(2)>>})) :
          CrawlPage(resp)
    \/ \E resp \in RepoResponses : CrawlItem(resp)
    \/ CrawlSleep
    \/ CrawlEnd
    \/ Tick

SpecSample == Init /\ [][NextSample]_vars

\* The text functions applied to each text.
NextText == ExtractAmount \/ DetermineSource

SpecText == InitText /\ [][NextText]_vars

(***************************************************************************)
(* Properties.                                                             *)
(***************************************************************************)
\* a step of CrawlItem: the only action that changes crawl at pc "items"
ItemStep == crawl.pc = "items" /\ crawl' # crawl

\* the item a step of CrawlItem processes
TheItem == Head(crawl.items)

\* the bounty amount of a payload, in cents
ItemAmount(item) == bounty_amounts[text_of(item)]

\* the payload has every key and timestamp the create path reads
WellFormed(item) == ~create_raises(item)

\* the key of the stored repository of a payload, 0 if none
RepoOf(d, item) == FirstIndex(d.repos, LAMBDA row : row.full_name = item.repo)

\* hours since the repository row was last refreshed
AgeHours(row, t) == utcnow(t) - Val(row.last_fetched_at)

\* C1: in every reachable state, after any upserts and per-issue syncs, each
\* stored issue has has_bounty true exactly when its bounty_amount is
\* positive.
C1_FlagMatchesAmount ==
    \A k \in 1..Len(db.issues) :
        db.issues[k].has_bounty = (db.issues[k].bounty_amount > 0)

\* an issue without bounty and an issue with one are stored, and the last
\* step was a sync that went through
C1_Witness ==
    /\ out.op = "sync" /\ ~out.raised
    /\ \E k \in 1..Len(db.issues) : db.issues[k].bounty_amount = 0
    /\ \E k \in 1..Len(db.issues) : db.issues[k].bounty_amount > 0

\* the business fields of an issue row
Business(row) ==
    <<row.title, row.body, row.status, row.comments_count, row.github_closed_at,
      row.bounty_amount, row.has_bounty, row.bounty_source, Range(row.labels)>>

\* C2: an upsert of the payload the previous upsert stored, which returns the
\* issue, adds no row, leaves the business fields equal and adds one to the
\* fetch counter.
C2_IdempotentUpsert ==
    [][ItemStep /\ last_item = Some(TheItem) /\ out'.ret # 0
         => /\ Len(db'.issues) = Len(db.issues)
            /\ Business(db'.issues[out'.ret]) = Business(db.issues[out'.ret])
            /\ db'.issues[out'.ret].fetch_count = db.issues[out'.ret].fetch_count + 1]_vars

\* C3: an upsert of a payload whose amount is below min_amount returns no
\* issue, issues no request and leaves every table as it was.
C3_BelowMinimumStoresNothing ==
    [][ItemStep /\ ItemAmount(TheItem) < crawl.min_amount
         => out'.ret = 0 /\ ~out'.raised /\ out'.reqs = <<>> /\ db' = db]_vars

\* a payload with a positive amount below the threshold was just skipped
C3_Witness ==
    /\ out.op = "item" /\ out.ret = 0
    /\ ItemAmount(Val(out.item)) > 0
    /\ ItemAmount(Val(out.item)) < crawl.min_amount

\* C4: an upsert that reaches get_or_create_repository for a stored
\* repository issues no request when the row was refreshed less than 24
\* hours ago, and exactly one request otherwise.
C4_RefreshWhenADayOld ==
    [][ItemStep /\ ItemAmount(TheItem) >= crawl.min_amount /\ RepoOf(db, TheItem) # 0
         => IF AgeHours(db.repos[RepoOf(db, TheItem)], now) < 24
            THEN out'.reqs = <<>>
            ELSE Len(out'.reqs) = 1]_vars

\* a stored repository was refreshed by the last upsert, under
\* initialize_application, whose session keeps the refreshed row
C4_Witness ==
    /\ out.op = "item" /\ out.reqs = <<"repo">> /\ out.fetched
    /\ \E k \in 1..Len(db.repos) :
          db.repos[k].fetch_count > 1 /\ AgeHours(db.repos[k], now) = 0 /\ now > 0

\* C5: a page step that finds fewer than 10 requests remaining issues no
\* request and ends the crawl with the issues accumulated so far; with 10 or
\* more remaining it issues exactly one page request.
C5_BudgetCheckBeforeEachPage ==
    [][crawl.pc = "page" /\ crawl' # crawl
         => IF rl.remaining < 10
            THEN /\ crawl'.pc = "returned"
                 /\ crawl'.page_requests = crawl.page_requests
                 /\ crawl'.new_issues = crawl.new_issues
                 /\ out'.reqs = <<>>
                 /\ db' = db /\ rl' = rl
            ELSE /\ crawl'.page_requests = crawl.page_requests + 1
                 /\ out'.reqs = <<"search">>]_vars

\* a crawl stopped by the budget check before its second page, with 5
\* requests remaining and the issue of the first page accumulated
C5_Witness ==
    /\ crawl.pc = "returned" /\ crawl.stop = "budget"
    /\ crawl.page = 2 /\ crawl.page_requests = 1
    /\ rl.remaining = 5
    /\ Len(crawl.new_issues) = 1

\* C6: search_bounty_issues does not raise on a well-formed item, whatever
\* the outcome of the requests.
C6_NeverRaises == crawl.pc = "raised" /\ out.op = "item" => ~WellFormed(Val(out.item))

\* a step of SyncIssue in which fetch_issue_comments was called, right after
\* a step of SyncIssue for the same issue in which it was called
SecondSyncInARow == out'.op = "sync" /\ out'.again /\ ~out'.raised

CommentsUnique(d) == Unique(d.comments, LAMBDA row : row.github_id)

C7_MalformedItemSkipped ==
    [][ItemStep /\ ~WellFormed(TheItem) /\ ItemAmount(TheItem) >= crawl.min_amount
         => out'.ret = 0 /\ ~out'.raised /\ crawl'.pc # "raised"]_vars

\* C9: an upsert of an issue with the label set of the previous upsert of that
\* issue leaves the number of label rows and of label associations equal.
C9_LabelsIdempotent ==
    [][(/\ ItemStep /\ ~IsNone(last_item)
        /\ Val(last_item).id = TheItem.id /\ Val(last_item).labels = TheItem.labels)
         => /\ Len(db'.labels) = Len(db.labels)
            /\ Len(db'.issues) = Len(db.issues)
            /\ \A k \in 1..Len(db.issues) :
                  Len(db'.issues[k].labels) = Len(db.issues[k].labels)]_vars

\* a labelled issue was upserted again with the payload stored before
C9_Witness ==
    /\ out.op = "item" /\ out.again /\ out.ret # 0
    /\ Len(db.issues[out.ret].labels) = 2

\* C10: when the refresh of a stored repository at least 24 hours old fails,
\* the repository rows stay as they were, and the upsert goes on: the issue
\* of a well-formed item is stored under that repository and returned.
C10_FailedRefreshKeepsRepository ==
    [][(/\ ItemStep /\ ItemAmount(TheItem) >= crawl.min_amount
        /\ RepoOf(db, TheItem) # 0
        /\ AgeHours(db.repos[RepoOf(db, TheItem)], now) >= 24
        /\ ~out'.fetched)
         => /\ db'.repos = db.repos
            /\ WellFormed(TheItem)
                 => /\ ~out'.raised
                    /\ out'.ret # 0
                    /\ db'.issues[out'.ret].repository_id = RepoOf(db, TheItem)]_vars

\* the refresh of a day-old repository failed and the issue came back
C10_Witness ==
    /\ out.op = "item" /\ out.reqs = <<"repo">> /\ ~out.fetched /\ out.ret # 0
    /\ \E k \in 1..Len(db.repos) : AgeHours(db.repos[k], now) >= 24

\* C11: an upsert that finds the repository absent and whose create fetch
\* fails returns no issue and leaves storage as it was; and every stored
\* issue references a stored repository of its full name.
C11_NoIssueWithoutRepository ==
    [][(/\ (ItemStep /\ RepoOf(db, TheItem) = 0 /\ ~out'.fetched
             => out'.ret = 0 /\ ~out'.raised /\ db' = db)
        /\ \A k \in 1..Len(db'.issues) :
              /\ db'.issues[k].repository_id \in 1..Len(db'.repos)
              /\ db'.repos[db'.issues[k].repository_id].full_name
                    = db'.issues[k].repository_full_name)]_vars

\* a stored issue was met again under an absent repository whose create fetch
\* failed
C11_Witness ==
    /\ out.op = "item" /\ out.reqs = <<"repo">> /\ ~out.fetched /\ out.ret = 0
    /\ RepoOf(db, Val(out.item)) = 0
    /\ \E k \in 1..Len(db.issues) : db.issues[k].github_id = Val(out.item).id

\* the key of the stored issue of a payload, 0 if none
IssueOf(d, item) == FirstIndex(d.issues, LAMBDA row : row.github_id = item.id)

\* C16: an upsert of a stored issue whose payload's amount is below
\* min_amount overwrites the stored amount with the extracted one and
\* recomputes the flag.
C16_UpdateIgnoresThreshold ==
    [][(/\ ItemStep /\ IssueOf(db, TheItem) # 0
        /\ ItemAmount(TheItem) < crawl.min_amount)
         => /\ db'.issues[IssueOf(db, TheItem)].bounty_amount = ItemAmount(TheItem)
            /\ db'.issues[IssueOf(db, TheItem)].has_bounty
                  = (ItemAmount(TheItem) > 0)]_vars

\* C17: an upsert leaves every stored issue with a label set that includes
\* the set it had before.
C17_LabelsNeverDetached ==
    [][ItemStep
         => \A k \in 1..Len(db.issues) :
               Range(db.issues[k].labels) \subseteq Range(db'.issues[k].labels)]_vars

\* an issue was upserted with a payload that lacks one of its stored labels
C17_Witness ==
    /\ out.op = "item" /\ out.ret # 0 /\ ~out.raised
    /\ Len(db.issues[out.ret].labels) > Len(Val(out.item).labels)

\* C12: the k-th page request of a crawl is the request for page k; a page
\* that failed or came back empty ends the crawl, any other page is processed;
\* the page number advances by one, after the items of a page; a crawl that
\* ended issues nothing more.
C12_PagesInOrder ==
    [][/\ (crawl.pc = "page" /\ out'.reqs = <<"search">>
            => /\ crawl'.page_requests = crawl.page
               /\ crawl'.page = crawl.page
               /\ crawl'.pc = IF out'.fetched /\ out'.page_items > 0
                              THEN "items" ELSE "returned")
       /\ (crawl.pc = "returned" => crawl'.pc = "idle")
       /\ (crawl.pc # "idle" /\ crawl'.pc # "idle" /\ crawl'.page # crawl.page
            => crawl.pc = "sleep" /\ crawl'.page = crawl.page + 1)]_vars

\* a crawl ended by its second page, which came back empty
C12_Witness ==
    /\ crawl.pc = "returned" /\ crawl.stop = "page"
    /\ crawl.page = 2 /\ crawl.page_requests = 2
    /\ out.op = "page" /\ out.fetched /\ out.page_items = 0

\* C13: once a response of the crawl was 403 with 0 remaining, the next page
\* step issues no request and ends the crawl.
C13_RateLimitedStopsCrawl ==
    [][crawl.pc = "page" /\ crawl.limited /\ crawl' # crawl
         => out'.reqs = <<>> /\ crawl'.pc = "returned"]_vars

\* the comment with external id `id` is stored in d
CommentIn(d, id) == \E k \in 1..Len(d.comments) : d.comments[k].github_id = id

\* C20: every comment a call of fetch_issue_comments returns is stored after
\* the call and was not stored before it.
C20_ReturnedAreInserted ==
    [][out'.op = "sync" /\ ~out'.raised
         => \A k \in 1..Len(out'.comments) :
               CommentIn(db', out'.comments[k]) /\ ~CommentIn(db, out'.comments[k])]_vars

\* the value of a parsed decimal string in cents, as a number: 100 times the
\* whole part plus the two decimals
exact_cents(amount_str) ==
    LET n == Len(amount_str)
        frac == n >= 3 /\ amount_str[n - 2] = "."
    IN  IF frac THEN 100 * DigitsValue(SubSeq(amount_str, 1, n - 3))
                       + DigitsValue(SubSeq(amount_str, n - 1, n))
        ELSE 100 * DigitsValue(amount_str)

\* the amounts, in cents, of all matches of all patterns in the lower-cased
\* text that parse as a number
MatchedCents(text) ==
    {exact_cents(StripSeparators(g)) :
        g \in {m \in UNION {Range(findall(p, lower(text), 1)) : p \in 1..NumPatterns} :
                 StripSeparators(m) # <<>>}}

\* C18: extract_bounty_amount returns the largest amount in cents among the
\* matches of the five patterns in the lower-cased text that parse as a
\* number, and 0 when there is none; the three example texts give 50000,
\* 125050 and 7500.
C18_MaxInCents ==
    calc.fn = "amount"
      => /\ \A c \in MatchedCents(calc.text) : Val(calc.res) >= c
         /\ Val(calc.res) \in MatchedCents(calc.text) \cup {0}
         /\ MatchedCents(calc.text) = {} => Val(calc.res) = 0
         /\ calc.text = E_two_amounts => Val(calc.res) = 50000
         /\ calc.text = E_decimal => Val(calc.res) = 125050
         /\ calc.text = E_usd => Val(calc.res) = 7500

\* the tags in the order of the sources dict
TagOrder ==
    <<"bountysource", "gitcoin", "algora", "console", "devcash",
      "github_sponsors", "custom">>

\* C19: determine_bounty_source returns the first tag, in the order
\* bountysource, gitcoin, algora, console, devcash, github_sponsors, custom,
\* one of whose keywords occurs in the lower-cased text, and None when no
\* keyword occurs; a text with a platform keyword never gets "custom".
C19_FirstTagWins ==
    calc.fn = "source"
      => LET t == lower(calc.text)
             hits == {k \in 1..Len(TagOrder) : SourceMatches(t, k)}
         IN  /\ \A k \in 1..Len(TagOrder) : sources[k].tag = TagOrder[k]
             /\ hits = {} <=> calc.res = None
             /\ hits # {}
                  => \E k \in hits : /\ calc.res = Some(TagOrder[k])
                                     /\ \A j \in hits : k <= j
             /\ (\E k \in hits : k < Len(TagOrder)) => calc.res # Some("custom")

\* the source of a text naming gitcoin and a bounty was determined
C19_Witness ==
    /\ calc.fn = "source"
    /\ Contains(lower(calc.text), <<"g","i","t","c","o","i","n">>)
    /\ Contains(lower(calc.text), kw_bounty)
    /\ calc.res = Some("gitcoin")

\* crawl p has its upsert resumed by the response to its repository request
FinishStep(p) == race[p].pc = "fetch" /\ race'[p].pc = "done"

\* the step's creation of a row hit the unique constraint, the other crawl
\* having stored the row since this one's query: the repository, once the
\* create fetch returned data; the issue, once a failed refresh of the stale
\* repository let the upsert go on
CreateConflict(p) ==
    \/ /\ race[p].seen.repo = 0
       /\ RepoOf(db, Val(race[p].item)) # 0
       /\ race'[p].fetched
    \/ /\ race[p].seen.repo # 0 /\ ~race'[p].fetched
       /\ race[p].seen.issue = 0
       /\ IssueOf(db, Val(race[p].item)) # 0

\* C14: an upsert whose creation of a Repository or an Issue hit the unique
\* constraint returns the stored issue of its item.
C14_ConflictReturnsExisting ==
    [][\A p \in Crawls :
          FinishStep(p) /\ CreateConflict(p)
            => /\ race'[p].ret # 0
               /\ race'[p].ret = IssueOf(db', Val(race[p].item))]_vars

\* C15: storage never holds two repositories of one full name nor two issues
\* of one external id; an upsert whose creation hit the unique constraint
\* does not raise and leaves storage as it was; an upsert resumed after its
\* request raises only after a successful refresh of a stored repository.
C15_OneRowPerKeyNoRaise ==
    [][/\ \A j, k \in 1..Len(db'.repos) :
             j # k => db'.repos[j].full_name # db'.repos[k].full_name
       /\ \A j, k \in 1..Len(db'.issues) :
             j # k => db'.issues[j].github_id # db'.issues[k].github_id
       /\ \A p \in Crawls :
             FinishStep(p)
               => /\ CreateConflict(p) => ~race'[p].raised /\ db' = db
                  /\ race'[p].raised => race[p].seen.repo # 0 /\ race'[p].fetched]_vars

\* a crawl's creation of an issue failed on the row the other crawl had
\* stored since, and the crawl went on
C15_Witness ==
    \E p \in Crawls :
       /\ race[p].pc = "done" /\ race[p].lost
       /\ race[p].seen.repo # 0 /\ race[p].seen.issue = 0 /\ ~race[p].fetched
       /\ race[p].ret = 0 /\ ~race[p].raised
       /\ \E k \in 1..Len(db.issues) : db.issues[k].github_id = Val(race[p].item).id

\* a step of CrawlItem whose upsert refreshed the stored repository k: the
\* repository of the item, a day old, its request answered with data
Refreshed(k) ==
    /\ ItemStep /\ ItemAmount(TheItem) >= crawl.min_amount
    /\ k = RepoOf(db, TheItem)
    /\ AgeHours(db.repos[k], now) >= 24
    /\ out'.fetched

\* C21: an upsert raises a repository's fetch counter by one when it
\* refreshed the repository and an issue's by one when it updated the stored
\* issue, and leaves every other fetch counter as it was.
C21_FetchCountMonotonic ==
    [][ItemStep
         => /\ \A k \in 1..Len(db.repos) :
                  db'.repos[k].fetch_count
                     = db.repos[k].fetch_count + IF Refreshed(k) THEN 1 ELSE 0
            /\ \A k \in 1..Len(db.issues) :
                  db'.issues[k].fetch_count
                     = db.issues[k].fetch_count + IF out'.ret = k THEN 1 ELSE 0]_vars

\* a step in which make_request was called
RequestStep == out'.reqs # <<>> /\ crawl' # crawl

\* the service's rate-limit state after the step is the one the headers h of
\* the response give: the remaining count, 0 when the header is absent, and
\* the reset time, the previous one when the header is absent
Recorded(h) ==
    /\ rl'.remaining = IF IsNone(h.remaining) THEN 0 ELSE Val(h.remaining)
    /\ rl'.reset = IF IsNone(h.reset) THEN rl.reset ELSE h.reset

\* C22 as stated: every call of make_request records the rate-limit state of
\* a response, whether the call succeeds or fails.
C22_EveryCallRecords ==
    [][RequestStep => ~IsNone(out'.heard) /\ Recorded(Val(out'.heard))]_vars

\* C22 amended: every call of make_request that receives a response records
\* its rate-limit headers, whatever the status; a call whose client raises
\* before a response leaves the rate-limit state as it was.
C22_EveryResponseRecords ==
    [][RequestStep
         => IF IsNone(out'.heard) THEN rl' = rl
            ELSE Recorded(Val(out'.heard))]_vars

\* a request failed and its response's remaining count of 9 was recorded
C22_Witness ==
    /\ out.reqs # <<>> /\ ~out.fetched /\ ~IsNone(out.heard)
    /\ Val(out.heard).remaining = Some(9) /\ rl.remaining = 9

\* C23 as stated: a page step that finds 10 requests remaining, or fewer,
\* issues no search-page request.
C23_TenStopsCrawl ==
    [][crawl.pc = "page" /\ crawl' # crawl /\ rl.remaining <= 10
         => out'.reqs = <<>> /\ crawl'.pc = "returned"]_vars

\* C23 amended: the budget check passes exactly when at least 10 requests
\* remain: with 10 remaining the page step issues its search-page request,
\* with 9 or fewer it issues none and ends the crawl.
C23_BelowTenStopsCrawl ==
    [][crawl.pc = "page" /\ crawl' # crawl
         => IF rl.remaining >= 10
            THEN out'.reqs = <<"search">>
                   /\ crawl'.page_requests = crawl.page_requests + 1
            ELSE out'.reqs = <<>> /\ crawl'.pc = "returned"
                   /\ crawl'.page_requests = crawl.page_requests]_vars

\* the second page was requested after its budget check read exactly 10
\* requests remaining
C23_Witness ==
    /\ out.op = "page" /\ out.reqs = <<"search">> /\ out.checked = Some(10)
    /\ crawl.page = 2 /\ crawl.page_requests = 2

\* C27: a crawl started with fewer than 10 requests recorded as remaining
\* issues no request, returns an empty list and leaves storage, the remaining
\* count and the reset time as they were, whatever the reset time; and no
\* step of a crawl that issues no request changes the recorded state, so the
\* same holds for the crawls that follow.
C27_StarvedCrawlStaysStarved ==
    [][/\ (crawl.pc = "page" /\ crawl.page = 1 /\ crawl' # crawl /\ rl.remaining < 10
            => /\ out'.reqs = <<>> /\ crawl'.pc = "returned"
               /\ crawl'.new_issues = <<>> /\ crawl'.page_requests = 0
               /\ rl' = rl /\ db' = db)
       /\ (out'.reqs = <<>> => rl' = rl)]_vars

\* a crawl returned at its first budget check although the recorded reset
\* time had passed
C27_Witness ==
    /\ crawl.pc = "returned" /\ crawl.stop = "budget"
    /\ crawl.page = 1 /\ crawl.page_requests = 0
    /\ out.checked = Some(9) /\ rl.remaining = 9
    /\ ~IsNone(rl.reset) /\ Val(rl.reset) <= utcnow(now)

\* the headers of the response of a request step
Heard == Val(out'.heard)

\* what a response without the remaining-count header, and one without the
\* reset header, leave recorded
HeaderDefaults ==
    RequestStep /\ ~IsNone(out'.heard)
      => /\ IsNone(Heard.remaining) => rl'.remaining = 0
         /\ IsNone(Heard.reset) => rl'.reset = rl.reset

\* C28 as stated: a response without remaining-count header records 0
\* remaining, one without reset header leaves the reset time as it was, and
\* once a response of the crawl lacked the remaining count no page step of
\* the crawl issues a request.
C28_HeaderlessStopsCrawl ==
    [][/\ HeaderDefaults
       /\ (crawl.pc = "page" /\ crawl' # crawl /\ crawl.nocount # "never"
            => out'.reqs = <<>> /\ crawl'.pc = "returned")]_vars

\* C28 amended: the same defaults; and when the latest response of the crawl
\* lacked the remaining count, the next page step issues no request and ends
\* the crawl.
C28_LastHeaderlessStopsCrawl ==
    [][/\ HeaderDefaults
       /\ (crawl.pc = "page" /\ crawl' # crawl /\ crawl.nocount = "last"
            => out'.reqs = <<>> /\ crawl'.pc = "returned")]_vars

\* a crawl ended at the budget check of its second page, its latest response
\* having lacked the remaining count, with 0 recorded as remaining
C28_Witness ==
    /\ crawl.pc = "returned" /\ crawl.stop = "budget" /\ crawl.nocount = "last"
    /\ crawl.page = 2 /\ crawl.page_requests = 1
    /\ rl.remaining = 0 /\ rl.reset = Some(5)

\* C24: every stored label name is lower-case and no two label rows share a
\* name; and an upsert that got its repository, of a well-formed payload,
\* returns the issue with each of the payload's label names, lower-cased,
\* attached by one row, once.
C24_OneLabelPerName ==
    [][/\ \A k \in 1..Len(db'.labels) : db'.labels[k].name = lower(db'.labels[k].name)
       /\ \A j, k \in 1..Len(db'.labels) :
             j # k => db'.labels[j].name # db'.labels[k].name
       /\ (/\ ItemStep /\ WellFormed(TheItem)
           /\ ItemAmount(TheItem) >= crawl.min_amount
           /\ out'.reqs = <<>> \/ out'.fetched
           /\ ~out'.raised)
            => /\ out'.ret # 0
               /\ \A n \in Range(TheItem.labels) :
                     Cardinality({k \in 1..Len(db'.issues[out'.ret].labels) :
                        db'.labels[db'.issues[out'.ret].labels[k]].name = lower(n)}) = 1]_vars

\* the sum of bounty_amount over the issues with has_bounty of repository k
\* among rows
RECURSIVE SumBounties(_, _)
SumBounties(rows, k) ==
    IF rows = <<>> THEN 0
    ELSE (IF Head(rows).repository_id = k /\ Head(rows).has_bounty
          THEN Head(rows).bounty_amount ELSE 0) + SumBounties(Tail(rows), k)

\* what the queries of Repository.update_bounty_stats select for repository k
BountyStats(d, k) ==
    LET with_bounty == {i \in 1..Len(d.issues) :
                           d.issues[i].repository_id = k /\ d.issues[i].has_bounty}
    IN  [total_bounties |-> Cardinality(with_bounty),
         total_bounty_amount |-> SumBounties(d.issues, k),
         active_bounties |->
            Cardinality({i \in with_bounty : d.issues[i].status = "open"}),
         completed_bounties |->
            Cardinality({i \in with_bounty : d.issues[i].status = "closed"})]

\* C25: right after an upsert refreshed a repository, the repository's four
\* bounty statistics are the count, the sum of the amounts, and the counts
\* of open and of closed ones, over its stored issues with a bounty; an upsert
\* that refreshed no repository leaves the statistics as they were.
C25_StatsAfterRefresh ==
    [][ItemStep
         => \A k \in 1..Len(db.repos) :
               LET row == db'.repos[k]
                   stats == [total_bounties |-> row.total_bounties,
                             total_bounty_amount |-> row.total_bounty_amount,
                             active_bounties |-> row.active_bounties,
                             completed_bounties |-> row.completed_bounties]
               IN  IF Refreshed(k) THEN stats = BountyStats(db', k)
                   ELSE /\ row.total_bounties = db.repos[k].total_bounties
                        /\ row.total_bounty_amount = db.repos[k].total_bounty_amount
                        /\ row.active_bounties = db.repos[k].active_bounties
                        /\ row.completed_bounties = db.repos[k].completed_bounties]_vars

\* C26: a crawl never issues more than max_pages search-page requests, and
\* every crawl that is under way ends: search_bounty_issues returns, or an
\* exception of an upsert leaves it.
C26_CrawlTerminates ==
    /\ [](crawl.page_requests <= crawl.max_pages)
    /\ (crawl.pc \in {"page", "items", "sleep"}) ~> (crawl.pc \in {"returned", "raised"})

\* a crawl returned after requesting every one of its 3 pages
C26_Witness ==
    /\ crawl.pc = "returned" /\ crawl.stop = "pages"
    /\ crawl.max_pages = 3 /\ crawl.page_requests = 3

\* C29: an upsert leaves every stored issue's external id, number, repository
\* id and full name, author, pull-request flag, created-at timestamp and
\* primary language as they were, whatever the payload carries.
C29_UpdateKeepsIdentity ==
    [][ItemStep
         => \A k \in 1..Len(db.issues) :
               LET old == db.issues[k]
                   new == db'.issues[k]
               IN  /\ new.github_id = old.github_id
                   /\ new.github_number = old.github_number
                   /\ new.repository_id = old.repository_id
                   /\ new.repository_full_name = old.repository_full_name
                   /\ new.author_username = old.author_username
                   /\ new.is_pull_request = old.is_pull_request
                   /\ new.github_created_at = old.github_created_at
                   /\ new.primary_language = old.primary_language]_vars

\* a stored issue was updated from a payload that names another repository,
\* and kept the repository it was stored under
C29_Witness ==
    /\ out.op = "item" /\ out.ret # 0 /\ ~out.raised
    /\ db.issues[out.ret].fetch_count > 1
    /\ db.issues[out.ret].repository_full_name # Val(out.item).repo

\* C30: an upsert that finds its repository stored with no last_fetched_at
\* issues no request and leaves the repository rows as they were, whatever
\* the clock shows.
C30_NeverFetchedIsFresh ==
    [][(/\ ItemStep /\ ItemAmount(TheItem) >= crawl.min_amount
        /\ RepoOf(db, TheItem) # 0
        /\ IsNone(db.repos[RepoOf(db, TheItem)].last_fetched_at))
         => out'.reqs = <<>> /\ db'.repos = db.repos]_vars

\* an issue of the sample repository was upserted a second time, a day after
\* the start, without any request
C30_Witness ==
    /\ out.op = "item" /\ out.again /\ out.ret # 0 /\ out.reqs = <<>>
    /\ now = MaxTicks
    /\ IsNone(db.repos[db.issues[out.ret].repository_id].last_fetched_at)
====
